---- MODULE Spec2Model ----
(***************************************************************************)
(* A model of synphot/spectrum.py: BaseSpectrum, BaseUnitlessSpectrum,     *)
(* SourceSpectrum and SpectralElement.                                     *)
(*                                                                         *)
(* Instances live in a heap (a sequence, in creation order).  Metadata     *)
(* dictionaries are objects of their own (dicts), because the code shares  *)
(* them by reference: self.metadata = header.  dicts[1] is the dictionary  *)
(* created once for the default argument header={} of                      *)
(* BaseSpectrum.__init__.  last describes the most recent call: what was   *)
(* called on what, the exception it raised if any, and the instance it     *)
(* returned, or the array (value) or the string (status) it returned.  An   *)
(* exception or a returned value is pending until the caller has taken it. *)
(*                                                                         *)
(* Numbers are IEEE-like extended rationals <<n, d>>: d > 0 is the finite  *)
(* value n/d in lowest terms, <<1,0>> is +inf, <<-1,0>> is -inf and        *)
(* <<0,0>> is NaN.  Signed zeros and rounding are not modelled.            *)
(***************************************************************************)
EXTENDS Integers, Sequences, FiniteSets, TLC

VARIABLES heap, dicts, last

vars == <<heap, dicts, last>>

-----------------------------------------------------------------------------
(* Bounds *)

\* Number of instances that may exist (operands and results).
MaxObjs == 3

\* Length of the arrays of the constructor calls that are enumerated.
MaxLen == 3

\* Number of instances in the runs of the in-place operations.
MaxInPlace == 2

\* Largest numerator and denominator of a value that is converted in place
\* once more.
MaxValue == 64

-----------------------------------------------------------------------------
(* Extended rational arithmetic (numpy float arrays) *)

NaN == <<0, 0>>
PInf == <<1, 0>>
NInf == <<-1, 0>>

Abs(n) == IF n < 0 THEN -n ELSE n

RECURSIVE GCD(_, _)
GCD(a, b) == IF b = 0 THEN a ELSE GCD(b, a % b)

\* n/d in lowest terms with a positive denominator (d # 0).
Norm(n, d) ==
    LET g == GCD(Abs(n), Abs(d))
        s == IF d < 0 THEN -1 ELSE 1
    IN  <<(s * n) \div g, (s * d) \div g>>

Num(i) == <<i, 1>>
Zero == Num(0)
One == Num(1)

IsNaN(x) == x = NaN
IsInf(x) == x[2] = 0 /\ x[1] # 0
IsFinite(x) == x[2] > 0
Sign(x) == IF x[1] > 0 THEN 1 ELSE IF x[1] < 0 THEN -1 ELSE 0

RNeg(x) == <<-x[1], x[2]>>

RAdd(x, y) ==
    IF IsNaN(x) \/ IsNaN(y) THEN NaN
    ELSE IF IsInf(x) THEN (IF IsInf(y) /\ y # x THEN NaN ELSE x)
    ELSE IF IsInf(y) THEN y
    ELSE LET g == GCD(x[2], y[2])
         IN  Norm(x[1] * (y[2] \div g) + y[1] * (x[2] \div g),
                  (x[2] \div g) * y[2])

RSub(x, y) == RAdd(x, RNeg(y))

RMul(x, y) ==
    IF IsNaN(x) \/ IsNaN(y) THEN NaN
    ELSE IF IsInf(x) \/ IsInf(y)
         THEN (IF Sign(x) * Sign(y) = 0 THEN NaN ELSE <<Sign(x) * Sign(y), 0>>)
    ELSE LET g == GCD(Abs(x[1]), y[2])
             h == GCD(Abs(y[1]), x[2])
         IN  Norm((x[1] \div g) * (y[1] \div h), (x[2] \div h) * (y[2] \div g))

RDiv(x, y) ==
    IF IsNaN(x) \/ IsNaN(y) THEN NaN
    ELSE IF IsInf(y) THEN (IF IsInf(x) THEN NaN ELSE Zero)
    ELSE IF y[1] = 0 THEN (IF Sign(x) = 0 THEN NaN ELSE <<Sign(x), 0>>)
    ELSE IF IsInf(x) THEN <<Sign(x) * Sign(y), 0>>
    ELSE LET g == GCD(Abs(x[1]), Abs(y[1]))
             h == GCD(x[2], y[2])
         IN  Norm((x[1] \div g) * (y[2] \div h), (x[2] \div h) * (y[1] \div g))

\* x < y as floats compare: every comparison with NaN is false.
RLt(x, y) ==
    IF IsNaN(x) \/ IsNaN(y) THEN FALSE
    ELSE IF x = y THEN FALSE
    ELSE IF x = NInf \/ y = PInf THEN TRUE
    ELSE IF x = PInf \/ y = NInf THEN FALSE
    ELSE LET g == GCD(x[2], y[2])
         IN  x[1] * (y[2] \div g) < y[1] * (x[2] \div g)

RLe(x, y) == ~IsNaN(x) /\ ~IsNaN(y) /\ (x = y \/ RLt(x, y))

-----------------------------------------------------------------------------
(* Array helpers (numpy) *)

Reverse(s) == [i \in 1..Len(s) |-> s[Len(s) + 1 - i]]

\* ndarray.min(): NaN is propagated, otherwise the least element.
ArrMin(a) ==
    IF \E i \in 1..Len(a) : IsNaN(a[i]) THEN NaN
    ELSE CHOOSE m \in {a[i] : i \in 1..Len(a)} :
            \A i \in 1..Len(a) : RLe(m, a[i])

\* np.where(a < 0)
NegIdx(a) == {i \in 1..Len(a) : RLt(a[i], Zero)}

\* The elements of a finite set of finite numbers, ascending (np.sort / np.union1d).
RECURSIVE SortSet(_)
SortSet(S) ==
    IF S = {} THEN <<>>
    ELSE LET m == CHOOSE x \in S : \A y \in S : RLe(x, y)
         IN  <<m>> \o SortSet(S \ {m})

Range(s) == {s[i] : i \in 1..Len(s)}

-----------------------------------------------------------------------------
(* Units (the unit subsystem, reduced to the tags the code branches on) *)

FLAM == "FLAM"
PHOTLAM == "PHOTLAM"
THROUGHPUT == "dimensionless"
STMAG == "STMAG"
VEGAMAG == "VEGAMAG"
AA == "Angstrom"
HZ == "Hz"

\* unit.decompose() == u.mag
IsMag(unit) == unit \in {STMAG, VEGAMAG}

\* unit.decompose() == u.dimensionless_unscaled
IsDimensionless(unit) == unit = THROUGHPUT

\* PHOTLAM, PHOTNU, FLAM by name, or any unit of type 'spectral flux density'.
IsFluxDensity(unit) == unit \in {FLAM, PHOTLAM}

SOURCE == "SourceSpectrum"
BAND == "SpectralElement"

\* Quantity * Quantity and Quantity / Quantity on the units.
MulUnit(a, b) ==
    IF IsDimensionless(b) THEN a
    ELSE IF IsDimensionless(a) THEN b
    ELSE a \o "*" \o b

DivUnit(a, b) == IF IsDimensionless(b) THEN a ELSE a \o "/" \o b

\* units.convert_flux between the linear flux densities:
\* PHOTLAM = FLAM * wavelength / (h c), in units where h c = 1.
ConvertFluxValue(w, f, from, to) ==
    IF from = to THEN f
    ELSE IF from = FLAM /\ to = PHOTLAM THEN RMul(f, w)
    ELSE IF from = PHOTLAM /\ to = FLAM THEN RDiv(f, w)
    ELSE f

units_convert_flux(wave, flux, from, to) ==
    [i \in 1..Len(flux) |-> ConvertFluxValue(wave[i], flux[i], from, to)]

-----------------------------------------------------------------------------
(* Metadata dictionaries and warning maps *)

Keys == {"expr", "k1", "k2"}
Absent == "<absent>"
EmptyDict == [k \in Keys |-> Absent]

\* d.update(e): the keys of e overwrite those of d.
DictUpdate(d, e) == [k \in Keys |-> IF e[k] # Absent THEN e[k] ELSE d[k]]

\* del d[k]
DictDel(d, key) == [k \in Keys |-> IF k = key THEN Absent ELSE d[k]]

NoNeg == <<0, 0>>
NoPartial == "<absent>"
NoWarnings == [NegativeFlux |-> NoNeg, PartialRenorm |-> NoPartial]

-----------------------------------------------------------------------------
(* The outcome of a call *)

\* No exception: the value array handed to the constructor of the result
\* (raw), the new instance, and the heap and the dictionaries after the call.
Returned(raw, obj, H, D) ==
    [exc |-> "none", why |-> "", merged |-> FALSE, clamped |-> FALSE,
     raw |-> raw, obj |-> <<obj>>, heap |-> H, dicts |-> D]

\* Exception exc, with what its message names (why).
Raised(exc, why, H, D) ==
    [exc |-> exc, why |-> why, merged |-> FALSE, clamped |-> FALSE,
     raw |-> <<>>, obj |-> <<>>, heap |-> H, dicts |-> D]

-----------------------------------------------------------------------------
(* Validation *)

\* A source spectrum accepting every unit that is not dimensionless.
ValidFluxUnitLoose(cls, unit) ==
    IF cls = SOURCE THEN ~IsDimensionless(unit) ELSE IsDimensionless(unit)

\* SourceSpectrum._validate_flux_unit / BaseUnitlessSpectrum._validate_flux_unit:
\* TRUE when the unit is legal for the class.
ValidFluxUnit(cls, unit) ==
    IF cls = SOURCE THEN IsFluxDensity(unit) ELSE IsDimensionless(unit)

\* _validate_flux_value with <= in place of < in line 133 and line 134.
ValidateFluxValueLe(flux, unit) ==
    IF ~IsMag(unit) /\ RLe(ArrMin(flux), Zero)
    THEN [flux |-> [i \in 1..Len(flux) |->
                       IF RLe(flux[i], Zero) THEN Zero ELSE flux[i]],
          warn |-> <<Cardinality({i \in 1..Len(flux) : RLe(flux[i], Zero)}),
                     Len(flux)>>]
    ELSE [flux |-> flux, warn |-> NoNeg]

\* _validate_flux_value setting the whole array to zero (line 135).
ValidateFluxValueAll(flux, unit) ==
    IF ~IsMag(unit) /\ RLt(ArrMin(flux), Zero)
    THEN [flux |-> [i \in 1..Len(flux) |-> Zero],
          warn |-> <<Cardinality(NegIdx(flux)), Len(flux)>>]
    ELSE [flux |-> flux, warn |-> NoNeg]

\* BaseSpectrum._validate_flux_value: the stored flux and the warning, if any.
ValidateFluxValue(flux, unit) ==
    IF ~IsMag(unit) /\ RLt(ArrMin(flux), Zero)
    THEN [flux |-> [i \in 1..Len(flux) |->
                       IF i \in NegIdx(flux) THEN Zero ELSE flux[i]],
          warn |-> <<Cardinality(NegIdx(flux)), Len(flux)>>]
    ELSE [flux |-> flux, warn |-> NoNeg]

\* utils.validate_wavelengths: "ok" or the exception it raises.  Zero or
\* negative entries are looked for first, then np.sort(w) is compared with w
\* and with its reverse, then neighbouring duplicates are looked for.
ValidateWavelengths(w) ==
    LET n == Len(w)
        asc == \A i \in 1..(n - 1) : RLe(w[i], w[i + 1])
        desc == \A i \in 1..(n - 1) : RLe(w[i + 1], w[i])
    IN  IF \E i \in 1..n : RLe(w[i], Zero) THEN "ZeroWavelength"
        ELSE IF ~asc /\ ~desc THEN "UnsortedWavelength"
        ELSE IF \E i \in 1..(n - 1) : w[i] = w[i + 1] THEN "DuplicateWavelength"
        ELSE "ok"

-----------------------------------------------------------------------------
(* Construction *)

\* area=None
NoArea == 0

\* dicts[1] is the default header={} of BaseSpectrum.__init__.
DefaultHeader == 1

\* The unit of self.flux after lines 96-99: a Quantity keeps its own unit
\* (qunit), anything else is tagged with flux_unit, which
\* BaseUnitlessSpectrum.__init__ forces to THROUGHPUT.
FluxUnitOf(cls, qunit, flux_unit) ==
    IF qunit # "none" THEN qunit
    ELSE IF cls = BAND THEN THROUGHPUT
    ELSE flux_unit

\* A source spectrum has no attribute thru.
NoThru == <<>>

\* self.thru = self.flux in BaseUnitlessSpectrum.__init__ (line 768)
thru_of(cls, flux) == IF cls = BAND THEN flux ELSE NoThru

\* BaseSpectrum.__init__ (and the two subclass constructors) on heap H and
\* dictionaries D; header is the index in D of the dictionary passed as header
\* and wunit the unit of the wavelengths (Angstrom unless they are a Quantity).
BaseSpectrum_init(H, D, cls, wavelengths, wunit, fluxes, unit, area, header) ==
    LET vf == ValidateFluxValue(fluxes, unit)
        clamped == vf.warn # NoNeg
        vw == ValidateWavelengths(wavelengths)
    IN  IF ~ValidFluxUnit(cls, unit)
        THEN Raised("SynphotError", unit, H, D)
        ELSE IF ~IsMag(unit) /\ Len(fluxes) = 0
        THEN Raised("ValueError", "min", H, D)
        ELSE IF vw # "ok"
        THEN [Raised(vw, "wave", H, D) EXCEPT !.clamped = clamped]
        ELSE IF Len(wavelengths) # Len(fluxes)
        THEN [Raised("SynphotError", "shape", H, D) EXCEPT !.clamped = clamped]
        ELSE Returned(fluxes,
                      [cls |-> cls,
                       wave |-> wavelengths,
                       wunit |-> wunit,
                       flux |-> vf.flux,
                       funit |-> unit,
                       area |-> area,
                       meta |-> header,
                       warnings |-> [NoWarnings EXCEPT !.NegativeFlux = vf.warn],
                       thru |-> thru_of(cls, vf.flux)],
                      H,
                      IF D[header]["expr"] = Absent
                      THEN [D EXCEPT ![header]["expr"] = cls]
                      ELSE D)

W(a, b) == <<Num(a), Num(b)>>

\* One constructor call of the user: the class, the two arrays, the unit of
\* fluxes when it is a Quantity (qunit), the flux_unit keyword, the area and
\* the header, when one is given.  The wavelengths are no Quantity, so that
\* they are taken to be in Angstrom (lines 104-105).
Input(cls, wave, flux, qunit, flux_unit, area, given, hdr) ==
    [cls |-> cls, wave |-> wave, wunit |-> AA, flux |-> flux,
     qunit |-> qunit, flux_unit |-> flux_unit, area |-> area, given |-> given,
     hdr |-> hdr]

\* The same call with the wavelengths as a Quantity in Hz (lines 106-107).
InHz(c) == [c EXCEPT !.wunit = HZ]

Plain(cls, wave, flux) ==
    Input(cls, wave, flux, "none", FLAM, NoArea, FALSE, EmptyDict)

\* Calls that construct an instance.
ValidInputs ==
    { Plain(SOURCE, W(1, 2), W(1, 2)),
      Input(SOURCE, W(1, 3), W(2, 1), PHOTLAM, FLAM, NoArea, TRUE,
            [EmptyDict EXCEPT !["expr"] = "star", !["k1"] = "a"]),
      Input(SOURCE, W(1, 2), <<Num(-1), Num(2)>>, "none", FLAM, 1, TRUE,
            [EmptyDict EXCEPT !["k1"] = "b"]),
      Plain(BAND, W(1, 2), W(0, 1)),
      Input(BAND, W(2, 3), W(1, 2), THROUGHPUT, FLAM, NoArea, TRUE,
            [EmptyDict EXCEPT !["k1"] = "c", !["k2"] = "d"]),
      Input(BAND, W(1, 2), <<Num(1), Num(-1)>>, "none", FLAM, 1, FALSE,
            EmptyDict) }

\* Calls with a unit that is illegal for the class.
IllegalInputs ==
    { Input(SOURCE, W(1, 2), W(1, 1), "none", STMAG, NoArea, FALSE, EmptyDict),
      Input(BAND, W(1, 2), W(1, 1), FLAM, FLAM, NoArea, FALSE, EmptyDict) }

Inputs == ValidInputs \cup IllegalInputs

\* The calls of the runs that convert flux units in place.
UnitInputs ==
    { Plain(SOURCE, W(1, 2), W(1, 2)),
      Plain(BAND, W(1, 3), W(0, 1)) } \cup IllegalInputs

-----------------------------------------------------------------------------
(* Wavelength grids: merge_wave and resample *)

\* units.validate_quantity(wave, unit, equivalencies=u.spectral()): wavelength
\* and frequency are reciprocal (in units where c = 1).
ConvertWave(wave, from, to) ==
    IF from = to THEN wave
    ELSE [i \in 1..Len(wave) |-> RDiv(One, wave[i])]

\* utils.merge_wavelengths: the distinct values of both grids, ascending.
merge_wavelengths(w1, w2) == SortSet(Range(w1) \cup Range(w2))

\* BaseSpectrum.merge_wave: the merged grid, in the unit of self.wave.
merge_wave(self, other) ==
    merge_wavelengths(self.wave, ConvertWave(other.wave, other.wunit, self.wunit))

\* np.interp(x, xp, fp) at one point, xp strictly ascending: the end values are
\* held outside [xp[1], xp[n]], and between two grid points the value is
\* slope * (x - xp[j]) + fp[j].
Interp(x, xp, fp) ==
    LET n == Len(xp)
    IN  IF RLt(x, xp[1]) THEN fp[1]
        ELSE IF RLt(xp[n], x) THEN fp[n]
        ELSE LET j == CHOOSE k \in 1..n :
                        RLe(xp[k], x) /\ (k = n \/ RLt(x, xp[k + 1]))
             IN  IF j = n THEN fp[n]
                 ELSE RAdd(RMul(RDiv(RSub(fp[j + 1], fp[j]),
                                     RSub(xp[j + 1], xp[j])),
                                RSub(x, xp[j])),
                           fp[j])

\* An interpolation that continues the first and the last segment outside
\* [xp[1], xp[n]].
np_interp_extrapolating(x, xp, fp) ==
    LET n == Len(xp)
        Line(j, v) == RAdd(RMul(RDiv(RSub(fp[j + 1], fp[j]),
                                     RSub(xp[j + 1], xp[j])),
                                RSub(v, xp[j])),
                           fp[j])
    IN  [i \in 1..Len(x) |->
            IF n >= 2 /\ RLt(x[i], xp[1]) THEN Line(1, x[i])
            ELSE IF n >= 2 /\ RLt(xp[n], x[i]) THEN Line(n - 1, x[i])
            ELSE Interp(x[i], xp, fp)]

np_interp(x, xp, fp) == [i \in 1..Len(x) |-> Interp(x[i], xp, fp)]

\* resample without the reversal of line 234.
resample_unreversed(self, wavelengths, wunit) ==
    LET old_wave == ConvertWave(self.wave, self.wunit, wunit)
        newasc == RLt(wavelengths[1], wavelengths[Len(wavelengths)])
        new_wave == IF newasc THEN wavelengths ELSE Reverse(wavelengths)
        oldasc == RLt(old_wave[1], old_wave[Len(old_wave)])
        resampled == IF oldasc
                     THEN np_interp(new_wave, old_wave, self.flux)
                     ELSE np_interp(new_wave, Reverse(old_wave),
                                    Reverse(self.flux))
    IN  IF newasc # oldasc THEN Reverse(resampled) ELSE resampled

\* resample without the second reversal of lines 238-239.
resample_unflipped(self, wavelengths, wunit) ==
    LET old_wave == ConvertWave(self.wave, self.wunit, wunit)
        newasc == RLt(wavelengths[1], wavelengths[Len(wavelengths)])
        new_wave == IF newasc THEN wavelengths ELSE Reverse(wavelengths)
        oldasc == RLt(old_wave[1], old_wave[Len(old_wave)])
    IN  IF oldasc
        THEN np_interp(new_wave, old_wave, self.flux)
        ELSE Reverse(np_interp(new_wave, Reverse(old_wave),
                               Reverse(self.flux)))

\* BaseSpectrum.resample onto wavelengths given in unit wunit (already
\* validated): the resampled values, in the order of wavelengths.
resample(self, wavelengths, wunit) ==
    LET old_wave == ConvertWave(self.wave, self.wunit, wunit)
        newasc == RLt(wavelengths[1], wavelengths[Len(wavelengths)])
        new_wave == IF newasc THEN wavelengths ELSE Reverse(wavelengths)
        oldasc == RLt(old_wave[1], old_wave[Len(old_wave)])
        resampled == IF oldasc
                     THEN np_interp(new_wave, old_wave, self.flux)
                     ELSE Reverse(np_interp(new_wave, Reverse(old_wave),
                                            Reverse(self.flux)))
    IN  IF newasc # oldasc THEN Reverse(resampled) ELSE resampled

-----------------------------------------------------------------------------
(* Arithmetic *)

Scalar(v) == [kind |-> "scalar", idx |-> 0, val |-> v]
Spec_(j) == [kind |-> "spec", idx |-> j, val |-> Zero]
NotANumber == [kind |-> "other", idx |-> 0, val |-> Zero]

\* The operators with the operands of - and / exchanged.
ApplyReflected(op_type, x, y) ==
    CASE op_type = "+" -> RAdd(x, y)
      [] op_type = "-" -> RSub(y, x)
      [] op_type = "*" -> RMul(x, y)
      [] op_type = "/" -> RDiv(y, x)

\* The elementwise operator on two numbers (lines 356-363).
Apply(op_type, x, y) ==
    CASE op_type = "+" -> RAdd(x, y)
      [] op_type = "-" -> RSub(x, y)
      [] op_type = "*" -> RMul(x, y)
      [] op_type = "/" -> RDiv(x, y)

\* SourceSpectrum.convert_flux / BaseUnitlessSpectrum.convert_flux on one
\* instance: the instance after the call (of a passband nothing changes).
convert_flux(self, out_flux_unit) ==
    IF self.cls = BAND THEN self
    ELSE [self EXCEPT !.flux = units_convert_flux(
                                   ConvertWave(self.wave, self.wunit, AA),
                                   self.flux, self.funit, out_flux_unit),
                      !.funit = out_flux_unit]

\* Incompatible without the check of lines 319-325.
IncompatibleAnyClass(self, other, op_type) ==
    IF self.area # other.area THEN "area"
    ELSE IF op_type = "/" /\ ~IsDimensionless(other.funit) THEN "division"
    ELSE IF op_type = "*" /\ ~IsDimensionless(self.funit)
            /\ ~IsDimensionless(other.funit)
    THEN "multiplication"
    ELSE "ok"

\* The compatibility checks of lines 302-334, in their order: which check
\* raised IncompatibleSources, or "ok".
Incompatible(self, other, op_type) ==
    IF self.area # other.area THEN "area"
    ELSE IF op_type = "/" /\ ~IsDimensionless(other.funit) THEN "division"
    ELSE IF op_type = "*" /\ ~IsDimensionless(self.funit)
            /\ ~IsDimensionless(other.funit)
    THEN "multiplication"
    ELSE IF op_type \in {"+", "-"} /\ other.cls # self.cls THEN "class"
    ELSE IF (IsMag(self.funit) /\ ~IsDimensionless(other.funit)
                /\ ~IsMag(other.funit))
            \/ (~IsMag(self.funit) /\ IsMag(other.funit))
    THEN "mag"
    ELSE "ok"

\* other2 = other: the conversion of line 345 then works on other itself.
alias(H, j) == [heap |-> H, ref |-> j]

\* other2 = deepcopy(other) (line 344): a new object, here at the end of the
\* heap, and the reference to it.
deepcopy(H, j) == [heap |-> Append(H, H[j]), ref |-> Len(H) + 1]

\* The update of line 374 the other way round: other overwrites self.
merge_metadata_reversed(self_metadata, other_metadata) ==
    DictUpdate(self_metadata, other_metadata)

\* Lines 369-374: the metadata of other (none for a scalar), updated with the
\* metadata of self.
merge_metadata(self_metadata, other_metadata) ==
    DictUpdate(other_metadata, self_metadata)

\* The unit of the Quantity computed in lines 356-363.
ResultUnit(op_type, unit1, unit2) ==
    CASE op_type \in {"+", "-"} -> unit1
      [] op_type = "*" -> MulUnit(unit1, unit2)
      [] op_type = "/" -> DivUnit(unit1, unit2)

\* BaseSpectrum._operate_on(self, other, op_type) with self = H[i], on heap H
\* and dictionaries D.
operate_on(H, D, i, other, op_type) ==
    LET self == H[i]
    IN  IF other.kind = "scalar"
        THEN LET result == [k \in 1..Len(self.flux) |->
                               Apply(op_type, self.flux[k], other.val)]
                 new_metadata == merge_metadata(D[self.meta], EmptyDict)
                 D2 == Append(D, DictDel(new_metadata, "expr"))
             IN  IF new_metadata["expr"] = Absent
                 THEN Raised("KeyError", "expr", H, D)
                 ELSE BaseSpectrum_init(H, D2, self.cls, self.wave, self.wunit,
                                        result, self.funit, self.area, Len(D2))
        ELSE IF other.kind = "spec"
        THEN LET o == H[other.idx]
                 why == Incompatible(self, o, op_type)
                 new_wave == merge_wave(self, o)
                 resamp_flux_1 == resample(self, new_wave, self.wunit)
                 c == deepcopy(H, other.idx)
                 H2 == IF op_type \in {"+", "-"}
                       THEN [c.heap EXCEPT ![c.ref] = convert_flux(@, self.funit)]
                       ELSE H
                 other2 == IF op_type \in {"+", "-"} THEN H2[c.ref] ELSE o
                 H3 == SubSeq(H2, 1, Len(H))
                 resamp_flux_2 == resample(other2, new_wave, self.wunit)
                 result == [k \in 1..Len(new_wave) |->
                               Apply(op_type, resamp_flux_1[k], resamp_flux_2[k])]
                 unit == ResultUnit(op_type, self.funit, other2.funit)
                 new_metadata == merge_metadata(D[self.meta], D[o.meta])
                 D2 == Append(D, DictDel(new_metadata, "expr"))
             IN  IF why # "ok"
                 THEN Raised("IncompatibleSources", why, H, D)
                 ELSE IF new_metadata["expr"] = Absent
                 THEN [Raised("KeyError", "expr", H3, D) EXCEPT !.merged = TRUE]
                 ELSE [BaseSpectrum_init(H3, D2, self.cls, new_wave, self.wunit,
                                         result, unit, self.area, Len(D2))
                          EXCEPT !.merged = TRUE]
        ELSE Raised("IncompatibleSources", "other", H, D)

\* __mul__ without the override of BaseUnitlessSpectrum.
mul_base(H, D, i, other) == operate_on(H, D, i, other, "*")

\* BaseSpectrum.__mul__ and its override BaseUnitlessSpectrum.__mul__: a
\* passband times a source spectrum is the source spectrum times the passband.
mul(H, D, i, other) ==
    IF H[i].cls = BAND /\ other.kind = "spec" /\ H[other.idx].cls = SOURCE
    THEN operate_on(H, D, other.idx, Spec_(i), "*")
    ELSE operate_on(H, D, i, other, "*")

\* self <op> other as the user writes it: __add__, __sub__, __mul__, __truediv__.
binary(H, D, i, other, op_type) ==
    IF op_type = "*" THEN mul(H, D, i, other)
    ELSE operate_on(H, D, i, other, op_type)

-----------------------------------------------------------------------------
(* Other operations that return a new instance *)

\* a[mask]: the entries of a at the indices in mask, in their order.
Masked(a, mask) ==
    LET F[k \in 0..Len(a)] ==
            IF k = 0 THEN <<>>
            ELSE IF k \in mask THEN Append(F[k - 1], a[k])
            ELSE F[k - 1]
    IN  F[Len(a)]

\* BaseSpectrum.trim_spectrum(min_wave, max_wave), for two numbers in the
\* unit of self.wave.
trim_spectrum(H, D, i, min_wave, max_wave) ==
    LET self == H[i]
        mask == {k \in 1..Len(self.wave) :
                    RLe(min_wave, self.wave[k]) /\ RLe(self.wave[k], max_wave)}
        D2 == Append(D, D[self.meta])
    IN  BaseSpectrum_init(H, D2, self.cls, Masked(self.wave, mask), self.wunit,
                          Masked(self.flux, mask), self.funit, self.area,
                          Len(D2))

\* A magnitude is counted in steps of 2.5 mag: 10 ** (-0.4 * 2.5 * n) is
\* 10 ** -n.
MagVal(n) == Norm(5 * n, 2)
Pow10(n) == IF n >= 0 THEN <<10 ^ n, 1>> ELSE <<1, 10 ^ (-n)>>

\* What add_mag is given: a number, a Quantity in some unit, or anything else.
\* The magnitude 2.5 * n + 2.5 * log10(q) is kept as n and q.
Mag(kind, n, unit) == [kind |-> kind, n |-> n, unit |-> unit, q |-> One]
LogMag(n, q) == [kind |-> "number", n |-> n, unit |-> "none", q |-> q]

\* The factor of a magnitude subtracted.
MagFactorInverse(mag) == RMul(Pow10(mag.n), mag.q)

\* 10**(-0.4 * magval) (line 918)
MagFactor(mag) == RDiv(Pow10(-mag.n), mag.q)

\* SourceSpectrum.add_mag(mag)
add_mag(H, D, i, mag) ==
    LET is_mag == IF mag.kind = "quantity" THEN IsMag(mag.unit) ELSE TRUE
    IN  IF mag.kind = "other" \/ ~is_mag
        THEN Raised("SynphotError", "mag", H, D)
        ELSE IF IsMag(H[i].funit)
        THEN operate_on(H, D, i, Scalar(MagVal(mag.n)), "+")
        ELSE mul(H, D, i, Scalar(MagFactor(mag)))

\* '{0}'.format(z) for an int z
Format(z) == ToString(z[1])

\* Every grid treated as a grid of lengths.
ShiftedAsLength(wave, wunit, fac) == [k \in 1..Len(wave) |-> RMul(wave[k], fac)]

\* new_wave of lines 974-977: a grid in Angstrom is of type length, one in Hz
\* is not.
Shifted(wave, wunit, fac) ==
    [k \in 1..Len(wave) |->
        IF wunit = AA THEN RMul(wave[k], fac) ELSE RDiv(wave[k], fac)]

\* SourceSpectrum.apply_redshift(z), for an int z or for something that is
\* not a number.
apply_redshift(H, D, i, z) ==
    LET self == H[i]
        fac == RAdd(One, z.val)
        new_wave == Shifted(self.wave, self.wunit, fac)
        new_metadata == [D[self.meta] EXCEPT
                            !["expr"] = @ \o " at z=" \o Format(z.val)]
        D2 == Append(D, new_metadata)
    IN  IF z.kind # "scalar"
        THEN Raised("SynphotError", "z", H, D)
        ELSE BaseSpectrum_init(H, D2, self.cls, new_wave, self.wunit, self.flux,
                               self.funit, self.area, Len(D2))

-----------------------------------------------------------------------------
(* Queries: resample, integrate and check_overlap as the user calls them *)

\* What a query returns: an array (a number is an array of one) or a string,
\* or the exception it raises.
Value(v) == [exc |-> "none", why |-> "", value |-> v, status |-> ""]
Status(st) == [exc |-> "none", why |-> "", value |-> <<>>, status |-> st]
Failed(exc, why) == [exc |-> exc, why |-> why, value |-> <<>>, status |-> ""]

\* BaseSpectrum.resample(wavelengths) for an array that is not a Quantity: it
\* is taken to be in the unit of self.wave and validated (lines 209-212).
resample_call(self, wavelengths) ==
    LET vw == ValidateWavelengths(wavelengths)
    IN  IF vw # "ok" THEN Failed(vw, "wave")
        ELSE Value(resample(self, wavelengths, self.wunit))

\* utils.trapezoid_integration(x, y): the area under the curve, whichever way
\* x runs; 0 for no point.
trapezoid_integration(x, y) ==
    LET F[k \in 1..Len(x)] ==
            IF k = 1 THEN Zero
            ELSE RAdd(F[k - 1],
                      RMul(RMul(<<1, 2>>, RAdd(y[k], y[k - 1])),
                           RSub(x[k], x[k - 1])))
    IN  IF Len(x) = 0 THEN Zero
        ELSE IF RLt(x[Len(x)], x[1]) THEN RNeg(F[Len(x)])
        ELSE F[Len(x)]

\* BaseSpectrum.integrate(): over self.wave.
integrate(self) == trapezoid_integration(self.wave, self.flux)

\* BaseSpectrum.integrate(wavelengths=...): the resampled values over the
\* given wavelengths.
integrate_over(self, wavelengths) ==
    trapezoid_integration(wavelengths, resample(self, wavelengths, self.wunit))

\* x.wave, whatever the values are.
AllWave(x) == x.wave

\* x.wave[x.flux.value != 0] (line 478); NaN is not 0.
NonZeroWave(x) == Masked(x.wave, {k \in 1..Len(x.flux) : x.flux[k] # Zero})

\* a.min() and a.max() of an array without NaN that is not empty.
ArrMax(a) == CHOOSE v \in Range(a) : \A w \in Range(a) : RLe(w, v)
ArrLow(a) == CHOOSE v \in Range(a) : \A w \in Range(a) : RLe(v, w)

\* utils.overlap_status(a, b), for two arrays that are not empty: "full" when
\* the range of a is within the range of b, "none" when the ranges are
\* disjoint, else "partial".
overlap_status(a, b) ==
    IF RLe(ArrLow(b), ArrLow(a)) /\ RLe(ArrMax(a), ArrMax(b)) THEN "full"
    ELSE IF RLt(ArrMax(a), ArrLow(b)) \/ RLt(ArrMax(b), ArrLow(a)) THEN "none"
    ELSE "partial"

\* utils.validate_totalflux: the total flux must be finite and positive.
ValidTotalFlux(totalflux) == IsFinite(totalflux) /\ RLt(Zero, totalflux)

\* threshold=0.01
DefaultThreshold == <<1, 100>>

\* excluded / totalflux < threshold (line 505)
Insignificant(excluded, totalflux, threshold) ==
    RLt(RDiv(excluded, totalflux), threshold)

\* check_overlap with all wavelengths of self and the non-zero ones of other.
check_overlap_unmasked(self, other, threshold) ==
    LET a == self.wave
        b == ConvertWave(NonZeroWave(other), other.wunit, self.wunit)
        result == overlap_status(a, b)
        totalflux == integrate(self)
        left == IF RLt(ArrLow(a), ArrLow(b))
                THEN integrate_over(self, <<ArrLow(a), ArrLow(b)>>) ELSE Zero
        right == IF RLt(ArrMax(b), ArrMax(a))
                 THEN integrate_over(self, <<ArrMax(b), ArrMax(a)>>) ELSE Zero
    IN  IF result # "partial" THEN Status(result)
        ELSE IF ~ValidTotalFlux(totalflux) THEN Failed("SynphotError", "totalflux")
        ELSE IF Insignificant(RAdd(left, right), totalflux, threshold)
        THEN Status("partial_most")
        ELSE Status("partial_notmost")

\* BaseSpectrum.check_overlap(other, threshold), for two spectra that each
\* have a bin that is not zero.
check_overlap(self, other, threshold) ==
    LET a == NonZeroWave(self)
        b == ConvertWave(NonZeroWave(other), other.wunit, self.wunit)
        result == overlap_status(a, b)
        totalflux == integrate(self)
        a_min == ArrLow(a)
        a_max == ArrMax(a)
        b_min == ArrLow(b)
        b_max == ArrMax(b)
        left == IF RLt(a_min, b_min)
                THEN integrate_over(self, <<a_min, b_min>>) ELSE Zero
        right == IF RLt(b_max, a_max)
                 THEN integrate_over(self, <<b_max, a_max>>) ELSE Zero
        excluded == RAdd(left, right)
    IN  IF result # "partial" THEN Status(result)
        ELSE IF ~ValidTotalFlux(totalflux) THEN Failed("SynphotError", "totalflux")
        ELSE IF Insignificant(excluded, totalflux, threshold)
        THEN Status("partial_most")
        ELSE Status("partial_notmost")

-----------------------------------------------------------------------------
(* In-place operations and the passband statistics with a threshold *)

\* BaseSpectrum.convert_wave(out_wave_unit), for a unit of wavelength or of
\* frequency: self.wave is replaced.
convert_wave(self, out_wave_unit) ==
    [self EXCEPT !.wave = ConvertWave(self.wave, self.wunit, out_wave_unit),
                 !.wunit = out_wave_unit]

\* The wavelength of the bin that is put before w0, the neighbour of which
\* is w1: wave_value[0] ** 2 / wave_value[1] (lines 555-556, 561-562).
EndWave(w0, w1) == RDiv(RMul(w0, w0), w1)

\* taper putting a bin at each end, whatever the end values are.
taper_always(self) ==
    LET n == Len(self.wave)
    IN  [self EXCEPT
           !.wave = <<EndWave(self.wave[1], self.wave[2])>> \o self.wave
                       \o <<EndWave(self.wave[n], self.wave[n - 1])>>,
           !.flux = <<Zero>> \o self.flux \o <<Zero>>]

\* BaseSpectrum.taper() on an instance of two bins or more (lines 540-568).
taper(self) ==
    LET front == self.flux[1] # Zero
        wave1 == IF front
                 THEN <<EndWave(self.wave[1], self.wave[2])>> \o self.wave
                 ELSE self.wave
        flux1 == IF front THEN <<Zero>> \o self.flux ELSE self.flux
        n == Len(wave1)
        back == flux1[n] # Zero
        wave2 == IF back THEN Append(wave1, EndWave(wave1[n], wave1[n - 1]))
                 ELSE wave1
        flux2 == IF back THEN Append(flux1, Zero) ELSE flux1
    IN  [self EXCEPT !.wave = wave2, !.flux = flux2]

\* taper of a passband without line 803.
taper_flux_only(self) == taper(self)

\* BaseUnitlessSpectrum.taper() (lines 792-803)
unitless_taper(self) == [taper(self) EXCEPT !.thru = taper(self).flux]

\* What a statistic is given as threshold: None, a number, or anything else.
Threshold(kind, val) == [kind |-> kind, val |-> val]

\* The mask with > in the place of >=.
SelectedAbove(self, threshold) ==
    IF threshold.kind = "none" THEN 1..Len(self.thru)
    ELSE {k \in 1..Len(self.thru) : RLt(threshold.val, self.thru[k])}

\* The bins a statistic is taken over: all of them for None, and
\* self.thru.value >= threshold for a number (lines 1335-1341, 1389-1395).
Selected(self, threshold) ==
    IF threshold.kind = "none" THEN 1..Len(self.thru)
    ELSE {k \in 1..Len(self.thru) : RLe(threshold.val, self.thru[k])}

\* wave and thru as the integrals of a statistic with a threshold are given
\* them: the bins of utils.to_length(self.wave) and of self.thru that are
\* selected, as pairs.  The number the statistic makes of them (square
\* roots and logarithms, and for the widths the average wavelength of the
\* whole passband) is not computed.
BinsOf(self, threshold) ==
    LET wave == ConvertWave(self.wave, self.wunit, AA)
    IN  Masked([k \in 1..Len(wave) |-> <<wave[k], self.thru[k]>>],
               Selected(self, threshold))

\* SpectralElement.rmswidth(threshold) (lines 1333-1344)
rmswidth(self, threshold) ==
    IF threshold.kind = "other" THEN Failed("SynphotError", "threshold")
    ELSE Value(BinsOf(self, threshold))

\* SpectralElement.photbw(threshold) (lines 1386-1398)
photbw(self, threshold) ==
    IF threshold.kind = "other" THEN Failed("SynphotError", "threshold")
    ELSE Value(BinsOf(self, threshold))

\* SpectralElement.fwhm(threshold): a constant times photbw(threshold)
\* (line 1432).
fwhm(self, threshold) == photbw(self, threshold)

-----------------------------------------------------------------------------
(* Renormalization *)

\* What renorm is given: the value and its unit ("none" when it is not a
\* Quantity; a magnitude is 2.5 * v), the band and the Vega spectrum as
\* indices in the heap (0 for an argument that is no spectrum, or None), and
\* force.
RenormArgs(v, unit, band, force, vegaspec) ==
    [v |-> v, unit |-> unit, band |-> band, force |-> force,
     vegaspec |-> vegaspec]

\* analytic.flat_spectrum(unit, wave_unit, area).to_spectrum(band.wave): a
\* source spectrum of flux 1 in the unit, on the wavelengths of the band.
flat_spectrum(unit, band, area) ==
    [cls |-> SOURCE, wave |-> band.wave, wunit |-> band.wunit,
     flux |-> [k \in 1..Len(band.wave) |-> One], funit |-> unit,
     area |-> area, meta |-> DefaultHeader, warnings |-> NoWarnings,
     thru |-> NoThru]

\* A renormalization that refuses every partial_notmost overlap.
OverlapRefusedForced(stat, force) == stat = "partial_notmost"

\* Lines 1130-1142: a partial_notmost overlap is refused unless forced.
OverlapRefused(stat, force) == stat = "partial_notmost" /\ ~force

\* A renormalization without the warning of lines 1131-1137.
RenormWarningMostOnly(stat, force) ==
    IF stat = "partial_most" THEN stat ELSE NoPartial

\* The warning of lines 1122-1137 for the overlap stat, if any.
RenormWarning(stat, force) ==
    IF stat = "partial_most" \/ (stat = "partial_notmost" /\ force)
    THEN stat ELSE NoPartial

\* The constant with the two fluxes exchanged.
ScaleFactorInverted(renorm_val, stdflux, totalflux) ==
    RMul(renorm_val, RDiv(totalflux, stdflux))

\* const of line 1193
ScaleFactor(renorm_val, stdflux, totalflux) ==
    RMul(renorm_val, RDiv(stdflux, totalflux))

\* A test for None in the place of the test of line 1169.
VegaIsNone(H, vegaspec) == vegaspec = 0

\* not isinstance(vegaspec, SourceSpectrum) (line 1169)
VegaMissing(H, vegaspec) == vegaspec = 0 \/ H[vegaspec].cls # SOURCE

\* Lines 1184-1194: the total flux is validated and the constant applied, by
\* add_mag for a magnitude and by __mul__ otherwise.
apply_const(H, D, i, a, unit, totalflux, stdflux) ==
    IF ~ValidTotalFlux(totalflux)
    THEN Raised("SynphotError", "totalflux", H, D)
    ELSE IF IsMag(unit)
    THEN add_mag(H, D, i, LogMag(a.v, RDiv(totalflux, stdflux)))
    ELSE mul(H, D, i, Scalar(ScaleFactor(a.v, stdflux, totalflux)))

\* Lines 1154-1194, for the outcomes sp of self * band and up of
\* stdspec * band: the first failure is the one raised.
rescale(H, D, i, a, unit, sp, up) ==
    IF sp.exc # "none" THEN Raised(sp.exc, sp.why, H, D)
    ELSE IF unit = VEGAMAG /\ VegaMissing(H, a.vegaspec)
    THEN Raised("SynphotError", "vegaspec", H, D)
    ELSE IF up.exc # "none" THEN Raised(up.exc, up.why, H, D)
    ELSE apply_const(H, D, i, a, unit, integrate(sp.obj[1]),
                     integrate(convert_flux(up.obj[1], H[i].funit)))

\* Lines 1148-1194 of SourceSpectrum.renorm, after the overlap was accepted:
\* the outcome on heap H and dictionaries D, without the warnings.
renormalize(H, D, i, a) ==
    LET self == H[i]
        band == H[a.band]
        unit == IF a.unit = "none" THEN self.funit ELSE a.unit
        H2 == IF unit = VEGAMAG THEN H
              ELSE Append(H, flat_spectrum(unit, band, self.area))
        stdspec == IF unit = VEGAMAG THEN a.vegaspec ELSE Len(H2)
    IN  rescale(H, D, i, a, unit, mul(H, D, i, Spec_(a.band)),
                operate_on(H2, D, stdspec, Spec_(a.band), "*"))

\* newsp.warnings.update(warnings) (line 1196)
with_warning(res, warning) ==
    IF res.exc # "none" \/ warning = NoPartial THEN res
    ELSE [res EXCEPT !.obj[1].warnings.PartialRenorm = warning]

\* Lines 1116-1197, for the outcome stat of band.check_overlap(self).
renorm_overlap(H, D, i, a, stat) ==
    IF stat.exc # "none"
    THEN [out |-> Raised(stat.exc, stat.why, H, D), stat |-> ""]
    ELSE IF stat.status = "none"
    THEN [out |-> Raised("DisjointError", "", H, D), stat |-> stat.status]
    ELSE IF OverlapRefused(stat.status, a.force)
    THEN [out |-> Raised("PartialOverlap", "", H, D), stat |-> stat.status]
    ELSE [out |-> with_warning(renormalize(H, D, i, a),
                               RenormWarning(stat.status, a.force)),
          stat |-> stat.status]

\* SourceSpectrum.renorm(renorm_val, band, force, vegaspec) on self = H[i],
\* for a target in a flux-density unit or in VEGAMAG: the outcome and the
\* overlap stat.
renorm(H, D, i, a) ==
    IF a.band = 0 \/ H[a.band].cls # BAND
    THEN [out |-> Raised("SynphotError", "band", H, D), stat |-> ""]
    ELSE renorm_overlap(H, D, i, a,
                        check_overlap(H[a.band], H[i], DefaultThreshold))

-----------------------------------------------------------------------------
(* State *)

\* What a call was made on: op on heap[left], with a right operand of kind
\* rkind that is heap[right] or the number scalar.  For a constructor call:
\* the class, the flux unit and the header passed ("none", or a header
\* "without expr" or "with expr").  For convert_flux: the unit asked for.
Call(op, left, rkind, right, scalar, cls, unit, given) ==
    [op |-> op, left |-> left, rkind |-> rkind, right |-> right,
     scalar |-> scalar, cls |-> cls, unit |-> unit, given |-> given]

OpCall(op, left, rkind, right, scalar) ==
    Call(op, left, rkind, right, scalar, "", "", "none")

NoCall ==
    [call |-> OpCall("none", 0, "none", 0, Zero), exc |-> "none",
     why |-> "", merged |-> FALSE, clamped |-> FALSE, raw |-> <<>>, result |-> 0,
     value |-> <<>>, status |-> "", arg |-> <<>>]

Init ==
    /\ heap = <<>>
    /\ dicts = <<EmptyDict>>
    /\ last = NoCall

\* The calls that return a value and no instance.
Statistics == {"rmswidth", "photbw", "fwhm"}
QueryOps == {"resample", "integrate", "check_overlap"} \cup Statistics

\* The exception raised or the value returned by the last call is still to
\* be taken by the caller.
Pending == last.exc # "none" \/ last.call.op \in QueryOps

\* The caller catches the exception of the failed call, or takes the value
\* that the call returned.
Handle ==
    /\ Pending
    /\ last' = NoCall
    /\ UNCHANGED <<heap, dicts>>

\* The call returned res: the new instance is stored, or the exception is
\* pending and the dictionary made for the instance is garbage.
ReturnWith(call, res, status, arg) ==
    /\ heap' = res.heap \o res.obj
    /\ dicts' = IF res.exc = "none" THEN res.dicts
                ELSE SubSeq(res.dicts, 1, Len(dicts))
    /\ last' = [call |-> call, exc |-> res.exc, why |-> res.why,
                merged |-> res.merged, clamped |-> res.clamped,
                raw |-> res.raw,
                result |-> IF res.exc = "none" THEN Len(heap) + 1 ELSE 0,
                value |-> <<>>, status |-> status, arg |-> arg]

Return(call, res) == ReturnWith(call, res, "", <<>>)

\* SourceSpectrum(wavelengths, fluxes, ...) or SpectralElement(wavelengths,
\* throughput, ...) called by the user, with or without a header.
Construct(c) ==
    /\ ~Pending
    /\ Len(heap) < MaxObjs
    /\ LET D == IF c.given THEN Append(dicts, c.hdr) ELSE dicts
           header == IF c.given THEN Len(D) ELSE DefaultHeader
           unit == FluxUnitOf(c.cls, c.qunit, c.flux_unit)
           given == IF ~c.given THEN "none"
                    ELSE IF c.hdr["expr"] = Absent THEN "without expr"
                    ELSE "with expr"
           res == BaseSpectrum_init(heap, D, c.cls, c.wave, c.wunit, c.flux, unit,
                                    c.area, header)
       IN  ReturnWith(Call("new", 0, "none", 0, Zero, c.cls, unit, given),
                      IF res.exc = "none" THEN res
                      ELSE [res EXCEPT !.dicts = dicts],
                      "", <<c>>)

Ops == {"+", "-", "*", "/"}

\* Numbers the user operates with.
Scalars == {Num(0), Num(1), Num(-1)}

\* heap[i] <op> heap[j]
SpectrumOp(i, j, op_type) ==
    /\ ~Pending
    /\ Len(heap) < MaxObjs
    /\ Return(OpCall(op_type, i, "spec", j, Zero),
              binary(heap, dicts, i, Spec_(j), op_type))

\* heap[i] <op> v for a number v
ScalarOp(i, v, op_type) ==
    /\ ~Pending
    /\ Len(heap) < MaxObjs
    /\ Return(OpCall(op_type, i, "scalar", 0, v),
              binary(heap, dicts, i, Scalar(v), op_type))

\* heap[i] <op> x for an x that is neither a number nor a spectrum
OtherOp(i, op_type) ==
    /\ ~Pending
    /\ Len(heap) < MaxObjs
    /\ Return(OpCall(op_type, i, "other", 0, Zero),
              binary(heap, dicts, i, NotANumber, op_type))

\* heap[i].convert_flux(unit), in place: SourceSpectrum.convert_flux validates
\* the unit and then replaces self.flux; BaseUnitlessSpectrum.convert_flux
\* returns self.thru.
ConvertFlux(i, unit) ==
    /\ ~Pending
    /\ LET call == Call("convert_flux", i, "none", 0, Zero, "", unit, "none")
       IN  IF heap[i].cls = SOURCE /\ ~ValidFluxUnit(SOURCE, unit)
           THEN /\ last' = [NoCall EXCEPT !.call = call,
                                          !.exc = "SynphotError", !.why = unit]
                /\ UNCHANGED <<heap, dicts>>
           ELSE /\ heap' = [heap EXCEPT ![i] = convert_flux(heap[i], unit)]
                /\ last' = [NoCall EXCEPT !.call = call]
                /\ UNCHANGED dicts

FluxUnits == {FLAM, PHOTLAM, STMAG}

\* Wavelength limits the user trims to.
Limits == {W(1, 2), W(2, 3), W(4, 5)}

\* heap[i].trim_spectrum(lim[1], lim[2])
TrimSpectrum(i, lim) ==
    /\ ~Pending
    /\ Len(heap) < MaxObjs
    /\ Return(OpCall("trim_spectrum", i, "none", 0, Zero),
              trim_spectrum(heap, dicts, i, lim[1], lim[2]))

\* Magnitudes the user adds: 0, -2.5, 2.5 mag, a Quantity that is no
\* magnitude, and something that is not a number.
Mags ==
    { Mag("number", 0, "none"), Mag("number", -1, "none"),
      Mag("quantity", 1, STMAG),
      Mag("quantity", 1, AA), Mag("other", 0, "none") }

\* heap[i].add_mag(mag)
AddMag(i, mag) ==
    /\ ~Pending
    /\ Len(heap) < MaxObjs
    /\ heap[i].cls = SOURCE
    /\ ReturnWith(OpCall("add_mag", i, "none", 0, Zero),
                  add_mag(heap, dicts, i, mag), "", <<mag>>)

\* Redshifts the user applies.
Redshifts == {Scalar(Num(0)), Scalar(Num(1)), Scalar(Num(-1)), NotANumber}

\* heap[i].apply_redshift(z)
ApplyRedshift(i, z) ==
    /\ ~Pending
    /\ Len(heap) < MaxObjs
    /\ heap[i].cls = SOURCE
    /\ Return(OpCall("apply_redshift", i, z.kind, 0, z.val),
              apply_redshift(heap, dicts, i, z))

\* The operations that derive a new instance from one instance.
Derive ==
    \/ \E i \in 1..Len(heap), lim \in Limits : TrimSpectrum(i, lim)
    \/ \E i \in 1..Len(heap), mag \in Mags : AddMag(i, mag)
    \/ \E i \in 1..Len(heap), z \in Redshifts : ApplyRedshift(i, z)

Arithmetic ==
    \/ \E i, j \in 1..Len(heap), op_type \in Ops : SpectrumOp(i, j, op_type)
    \/ \E i \in 1..Len(heap), v \in Scalars, op_type \in Ops : ScalarOp(i, v, op_type)
    \/ \E i \in 1..Len(heap), op_type \in Ops : OtherOp(i, op_type)

\* Construction, arithmetic and derivation.
Next ==
    \/ \E c \in Inputs : Construct(c)
    \/ Arithmetic
    \/ Derive
    \/ Handle

Spec == Init /\ [][Next]_vars

\* Construction, arithmetic and in-place flux conversion.
NextUnits ==
    \/ \E c \in UnitInputs : Construct(c)
    \/ Arithmetic
    \/ \E i \in 1..Len(heap), unit \in FluxUnits : ConvertFlux(i, unit)
    \/ Handle

SpecUnits == Init /\ [][NextUnits]_vars

\* A query returned res: no instance is made and none is changed.
Answer(call, arg, res) ==
    /\ last' = [NoCall EXCEPT !.call = call, !.exc = res.exc, !.why = res.why,
                              !.value = res.value, !.status = res.status,
                              !.arg = arg]
    /\ UNCHANGED <<heap, dicts>>

\* Grids the user resamples to, besides the grid of the spectrum itself and
\* its reverse: one that starts below and ends above every grid of GridInputs,
\* descending too, and one that is not sorted.
Grids ==
    { <<Num(1), Num(4), Num(7)>>, <<Num(7), Num(4), Num(1)>>,
      <<Num(4), Num(1), Num(7)>> }

\* heap[i].resample(wavelengths)
Resample(i, wavelengths) ==
    /\ ~Pending
    /\ Answer(OpCall("resample", i, "none", 0, Zero), wavelengths,
              resample_call(heap[i], wavelengths))

\* heap[i].integrate()
Integrate(i) ==
    /\ ~Pending
    /\ Answer(OpCall("integrate", i, "none", 0, Zero), <<>>,
              Value(<<integrate(heap[i])>>))

\* Some bin of x is not zero.
HasFlux(x) == \E k \in 1..Len(x.flux) : x.flux[k] # Zero

\* heap[i].check_overlap(heap[j])
CheckOverlap(i, j) ==
    /\ ~Pending
    /\ HasFlux(heap[i])
    /\ HasFlux(heap[j])
    /\ Answer(OpCall("check_overlap", i, "spec", j, Zero), <<>>,
              check_overlap(heap[i], heap[j], DefaultThreshold))

\* The constructor calls of the runs that resample, integrate and compare
\* grids: a flat source spectrum on [3, 6]; flat passbands within it, across
\* its lower end, mostly within it, and below it; and a source spectrum and a
\* passband on descending grids with bins that are zero at their ends.
GridInputs ==
    { Plain(SOURCE, W(3, 6), W(1, 1)),
      Plain(BAND, W(4, 5), W(1, 1)),
      Plain(BAND, W(2, 4), W(1, 1)),
      Plain(BAND, <<Num(2), Num(3), Num(4), Num(6)>>,
                  <<(<<1, 100>>), (<<1, 100>>), Num(1), Num(1)>>),
      Plain(BAND, W(1, 2), W(1, 1)),
      Plain(SOURCE, <<Num(6), Num(4), Num(3)>>, <<Num(-1), Num(2), Num(1)>>),
      Plain(BAND, <<Num(5), Num(4), Num(3), Num(2)>>,
                  <<Num(0), Num(1), Num(2), Num(0)>>) }

\* Calls of renorm: to 2 FLAM, to the numbers 2 and 0, to 2 PHOTLAM and to
\* 2.5 VEGAMAG, with a band (heap[j], or no spectrum at all), with and
\* without force, with a Vega spectrum (heap[k]) or without.
RenormCalls(j, k) ==
    { RenormArgs(Num(2), FLAM, j, FALSE, 0),
      RenormArgs(Num(2), "none", j, TRUE, 0),
      RenormArgs(Num(2), "none", j, TRUE, k),
      RenormArgs(Num(0), "none", j, FALSE, 0),
      RenormArgs(Num(2), PHOTLAM, j, FALSE, 0),
      RenormArgs(1, VEGAMAG, j, FALSE, 0),
      RenormArgs(1, VEGAMAG, j, TRUE, k) }

\* heap[i].renorm(a.v, heap[a.band], a.force, heap[a.vegaspec])
Renorm(i, a) ==
    /\ ~Pending
    /\ Len(heap) < MaxObjs
    /\ heap[i].cls = SOURCE
    /\ HasFlux(heap[i])
    /\ a.band # 0 => HasFlux(heap[a.band])
    /\ \E r \in {renorm(heap, dicts, i, a)} :
           ReturnWith(Call("renorm", i, "spec", a.band, Zero, "",
                           IF a.unit = "none" THEN heap[i].funit ELSE a.unit,
                           "none"),
                      r.out, r.stat, <<a>>)

Queries ==
    \/ \E i \in 1..Len(heap) :
          \E w \in Grids \cup {heap[i].wave, Reverse(heap[i].wave)} :
             Resample(i, w)
    \/ \E i \in 1..Len(heap) : Integrate(i)
    \/ \E i, j \in 1..Len(heap) : CheckOverlap(i, j)

\* Construction, queries and renormalization.
NextGrid ==
    \/ \E c \in GridInputs : Construct(c)
    \/ Queries
    \/ \E i \in 1..Len(heap), j, k \in 0..Len(heap) :
          \E a \in RenormCalls(j, k) : Renorm(i, a)
    \/ Handle

SpecGrid == Init /\ [][NextGrid]_vars

\* The calls of the runs that apply redshifts: on a grid of wavelengths, on a
\* grid of frequencies, and with a header that has an expr.
ShiftInputs ==
    { Plain(SOURCE, W(1, 2), W(1, 2)),
      InHz(Plain(SOURCE, W(2, 1), W(1, 3))),
      Input(SOURCE, W(1, 3), <<Num(-1), Num(2)>>, PHOTLAM, FLAM, 1, TRUE,
            [EmptyDict EXCEPT !["expr"] = "star", !["k1"] = "a"]) }

\* Construction and redshifts.
NextShift ==
    \/ \E c \in ShiftInputs : Construct(c)
    \/ \E i \in 1..Len(heap), z \in Redshifts : ApplyRedshift(i, z)
    \/ Handle

SpecShift == Init /\ [][NextShift]_vars

\* The arrays of at most n numbers of S.
Arrays(S, n) == UNION {[1..k -> S] : k \in 0..n}

\* Every constructor call with wavelengths of 0, 1, 2 and 3 and values of -1,
\* 1 and NaN, of either class, with a flux unit that is legal for the class
\* or not.
NewInputs ==
    { Input(u[1], w, f, u[2], u[3], NoArea, FALSE, EmptyDict) :
        w \in Arrays({Num(0), Num(1), Num(2), Num(3)}, MaxLen),
        f \in Arrays({Num(-1), Num(1), NaN}, MaxLen),
        u \in { <<SOURCE, "none", FLAM>>, <<SOURCE, "none", STMAG>>,
                <<BAND, "none", FLAM>>, <<BAND, FLAM, FLAM>> } }

\* One constructor call of a program that has no instance yet.
NextNew ==
    \/ \E c \in NewInputs : Len(heap) = 0 /\ Construct(c)
    \/ Handle

SpecNew == Init /\ [][NextNew]_vars

\* The constructor calls of the runs that compare grids at the threshold: a
\* source spectrum with a peak in the bins below 3, a flat source spectrum
\* with a hundredth of its flux below 2, and flat passbands on [3, 6] and on
\* [2, 101].
OverlapInputs ==
    { Plain(SOURCE, <<Num(1), Num(2), Num(3), Num(6)>>,
                    <<(<<1, 100>>), Num(1), (<<1, 100>>), Num(1)>>),
      Plain(SOURCE, <<Num(1), Num(2), Num(101)>>, <<Num(1), Num(1), Num(1)>>),
      Plain(BAND, W(3, 6), W(1, 1)),
      Plain(BAND, W(2, 101), W(1, 1)) }

\* Construction and comparisons of grids.
NextOverlap ==
    \/ \E c \in OverlapInputs : Construct(c)
    \/ \E i, j \in 1..Len(heap) : CheckOverlap(i, j)
    \/ Handle

SpecOverlap == Init /\ [][NextOverlap]_vars

\* An in-place operation returned: heap[i] is now obj.
Mutated(call, i, obj) ==
    /\ heap' = [heap EXCEPT ![i] = obj]
    /\ last' = [NoCall EXCEPT !.call = call]
    /\ UNCHANGED dicts

\* An in-place operation raised exc before it changed anything.
Refused(call, exc, why) ==
    /\ last' = [NoCall EXCEPT !.call = call, !.exc = exc, !.why = why]
    /\ UNCHANGED <<heap, dicts>>

\* Units the user converts wavelengths to; FLAM is no unit of wavelength.
WaveUnits == {AA, HZ, FLAM}

\* heap[i].convert_wave(unit), in place: units.validate_quantity raises for
\* a unit that is not spectral, before self.wave is assigned (lines 410-411).
ConvertWaveTo(i, unit) ==
    /\ ~Pending
    /\ LET call == Call("convert_wave", i, "none", 0, Zero, "", unit, "none")
       IN  IF unit \notin {AA, HZ}
           THEN Refused(call, "UnitsError", unit)
           ELSE Mutated(call, i, convert_wave(heap[i], unit))

\* heap[i].taper(), in place: with one bin that is not zero, wave_value[1]
\* does not exist (line 556) and nothing is assigned.
Taper(i) ==
    /\ ~Pending
    /\ LET call == OpCall("taper", i, "none", 0, Zero)
       IN  IF Len(heap[i].wave) < 2 /\ heap[i].flux[1] # Zero
           THEN Refused(call, "IndexError", "")
           ELSE IF Len(heap[i].wave) < 2
           THEN Mutated(call, i, heap[i])
           ELSE Mutated(call, i, IF heap[i].cls = BAND
                                 THEN unitless_taper(heap[i])
                                 ELSE taper(heap[i]))

\* Thresholds the user passes: None, 1 and something that is no number.
Thresholds ==
    { Threshold("none", Zero), Threshold("number", Num(1)),
      Threshold("other", Zero) }

\* heap[i].rmswidth(threshold), .photbw(threshold) or .fwhm(threshold)
Statistic(i, name, threshold) ==
    /\ ~Pending
    /\ heap[i].cls = BAND
    /\ Answer(OpCall(name, i, "none", 0, Zero), <<threshold>>,
              CASE name = "rmswidth" -> rmswidth(heap[i], threshold)
                [] name = "photbw" -> photbw(heap[i], threshold)
                [] name = "fwhm" -> fwhm(heap[i], threshold))

\* The constructor calls of the runs of the in-place operations: a source
\* spectrum, a passband that is zero at its first bin only, a passband on
\* descending frequencies, and a passband of one bin.
InPlaceInputs ==
    { Plain(SOURCE, W(1, 2), W(1, 2)),
      Plain(BAND, <<Num(1), Num(2), Num(4)>>, <<Num(0), Num(1), Num(2)>>),
      InHz(Plain(BAND, W(4, 2), W(2, 1))),
      Plain(BAND, <<Num(2)>>, <<Num(1)>>) }

\* The values of heap[i] are small enough to be converted once more.
Small(i) ==
    \A x \in Range(heap[i].wave) \cup Range(heap[i].flux) :
        /\ -MaxValue <= x[1] /\ x[1] <= MaxValue
        /\ x[2] <= MaxValue

\* Construction, the three in-place operations and the statistics.
NextInPlace ==
    \/ \E c \in InPlaceInputs : Len(heap) < MaxInPlace /\ Construct(c)
    \/ \E i \in 1..Len(heap), unit \in WaveUnits :
          Small(i) /\ ConvertWaveTo(i, unit)
    \/ \E i \in 1..Len(heap), unit \in FluxUnits :
          Small(i) /\ ConvertFlux(i, unit)
    \/ \E i \in 1..Len(heap) : Taper(i)
    \/ \E i \in 1..Len(heap), name \in Statistics, threshold \in Thresholds :
          Statistic(i, name, threshold)
    \/ Handle

SpecInPlace == Init /\ [][NextInPlace]_vars

-----------------------------------------------------------------------------
(* Claims *)

\* The last call was heap[left] <op> heap[right] for one of the four operators.
SpectrumCall == last.call.op \in Ops /\ last.call.rkind = "spec"
ScalarCall == last.call.op \in Ops /\ last.call.rkind = "scalar"
Succeeded == last.exc = "none" /\ last.result > 0
Left == heap[last.call.left]
Right == heap[last.call.right]
Result == heap[last.result]

\* C1: a binary operation on two spectra raises IncompatibleSources exactly
\* when the areas differ, or the operator is / and the right operand is not
\* dimensionless, or the operator is * and neither operand is dimensionless,
\* or the operator is + or - and the classes differ; an operand that is
\* neither a number nor a spectrum raises it too; and it is always raised
\* before the wavelengths are merged.
C1_IncompatibleOperands ==
    /\ SpectrumCall =>
          (last.exc = "IncompatibleSources"
             <=> \/ Left.area # Right.area
                 \/ last.call.op = "/" /\ ~IsDimensionless(Right.funit)
                 \/ last.call.op = "*" /\ ~IsDimensionless(Left.funit)
                                       /\ ~IsDimensionless(Right.funit)
                 \/ last.call.op \in {"+", "-"} /\ Left.cls # Right.cls)
    /\ (last.call.op \in Ops /\ last.call.rkind = "other")
          => last.exc = "IncompatibleSources"
    /\ last.exc = "IncompatibleSources" => ~last.merged

\* C1 witness: a passband and a source spectrum of equal area were added or
\* subtracted and the call raised IncompatibleSources.
C1_Witness ==
    /\ SpectrumCall
    /\ last.call.op \in {"+", "-"}
    /\ Left.cls # Right.cls
    /\ Left.area = Right.area
    /\ last.exc = "IncompatibleSources"

\* The operations that return a new instance.
CopyOps == Ops \cup {"trim_spectrum", "add_mag", "apply_redshift"}

C3_NegativeClamped ==
    (Succeeded /\ ~IsMag(Result.funit)) =>
        LET k == Cardinality(NegIdx(last.raw))
        IN  /\ Len(Result.flux) = Len(last.raw)
            /\ \A i \in 1..Len(last.raw) :
                  Result.flux[i] = IF RLt(last.raw[i], Zero) THEN Zero
                                   ELSE last.raw[i]
            /\ Result.warnings.NegativeFlux
                  = IF k >= 1 THEN <<k, Len(last.raw)>> ELSE NoNeg

\* C4 (as claimed): no instance in a non-magnitude unit stores a negative
\* value.
C4_NonNegative ==
    \A i \in 1..Len(heap) :
       ~IsMag(heap[i].funit) =>
          \A k \in 1..Len(heap[i].flux) : ~RLt(heap[i].flux[k], Zero)

\* C5: every SourceSpectrum holds a flux-density unit and every
\* SpectralElement a dimensionless one; a constructor call with a unit that
\* is illegal for the class, and convert_flux of a source spectrum to an
\* illegal unit, raise SynphotError naming the unit; and a failed
\* convert_flux has changed nothing.
C5_UnitLegality ==
    /\ [](/\ \A i \in 1..Len(heap) :
                IF heap[i].cls = SOURCE THEN IsFluxDensity(heap[i].funit)
                ELSE IsDimensionless(heap[i].funit)
          /\ (/\ last.call.op = "new"
              /\ \/ last.call.cls = SOURCE /\ ~IsFluxDensity(last.call.unit)
                 \/ last.call.cls = BAND /\ ~IsDimensionless(last.call.unit))
                => last.exc = "SynphotError" /\ last.why = last.call.unit
          /\ (/\ last.call.op = "convert_flux"
              /\ Left.cls = SOURCE
              /\ ~IsFluxDensity(last.call.unit))
                => last.exc = "SynphotError" /\ last.why = last.call.unit)
    /\ [][(last'.call.op = "convert_flux" /\ last'.exc # "none")
             => heap' = heap]_vars

\* C5 witness: convert_flux of a source spectrum to a unit that is not a
\* flux density has raised SynphotError.
C5_Witness ==
    /\ last.call.op = "convert_flux"
    /\ Left.cls = SOURCE
    /\ last.exc = "SynphotError"

\* The metadata of instance i.
Metadata(i) == dicts[heap[i].meta]

\* C6 (as claimed): the metadata of every instance has an expr, and an
\* instance constructed without a header, or with a header without expr, has
\* the name of its own class as expr.
C6_ExprIsTypeName ==
    /\ \A i \in 1..Len(heap) : Metadata(i)["expr"] # Absent
    /\ (/\ last.call.op = "new"
        /\ Succeeded
        /\ last.call.given \in {"none", "without expr"})
          => Metadata(last.result)["expr"] = Result.cls

\* The heap and the dictionaries before the last call, when it succeeded.
HeapBefore == SubSeq(heap, 1, Len(heap) - 1)
DictsBefore == SubSeq(dicts, 1, Len(dicts) - 1)

BandTimesSource ==
    /\ SpectrumCall
    /\ last.call.op = "*"
    /\ Left.cls = BAND
    /\ Right.cls = SOURCE

\* C7: the result of a binary operation is a new instance of the class of
\* the left operand, with its flux unit and area; but a passband times a
\* source spectrum of the same area is a SourceSpectrum, the one that the
\* source spectrum times the passband is.
C7_ResultVariant ==
    (last.call.op \in Ops /\ last.call.rkind \in {"spec", "scalar"}) =>
        IF BandTimesSource
        THEN /\ Left.area = Right.area => Succeeded
             /\ Succeeded =>
                   LET r == binary(HeapBefore, DictsBefore, last.call.right,
                                   Spec_(last.call.left), "*")
                   IN  /\ Result.cls = SOURCE
                       /\ r.exc = "none"
                       /\ Result = r.obj[1]
                       /\ Metadata(last.result) = r.dicts[r.obj[1].meta]
        ELSE Succeeded =>
                /\ last.result = Len(heap)
                /\ Result.cls = Left.cls
                /\ Result.funit = Left.funit
                /\ Result.area = Left.area

\* C7 witness: a passband times a source spectrum has returned.
C7_Witness == BandTimesSource /\ Succeeded

\* The metadata of the result of the last call, when left and right are the
\* metadata of the operand that wins and of the one that loses a conflict.
MergedFrom(winner, loser) ==
    /\ \A k \in Keys \ {"expr"} :
          Metadata(last.result)[k]
             = IF winner[k] # Absent THEN winner[k] ELSE loser[k]
    /\ Metadata(last.result)["expr"] = Result.cls

\* C8 (as claimed): the metadata of the result of an operation on two
\* spectra has every key of either operand, a key of both with the value of
\* the left operand, and the class name of the result as expr; the result of
\* a scalar operation has the metadata of the left operand, with such an
\* expr.
C8_LeftWins ==
    /\ (SpectrumCall /\ Succeeded)
          => MergedFrom(Metadata(last.call.left), Metadata(last.call.right))
    /\ (ScalarCall /\ Succeeded)
          => MergedFrom(Metadata(last.call.left), EmptyDict)

\* C8 (amended): as claimed, but a key of both operands of a passband times
\* a source spectrum has the value of the source spectrum, the right operand.
C8_SelfWins ==
    /\ (SpectrumCall /\ Succeeded)
          => IF BandTimesSource
             THEN MergedFrom(Metadata(last.call.right), Metadata(last.call.left))
             ELSE MergedFrom(Metadata(last.call.left), Metadata(last.call.right))
    /\ (ScalarCall /\ Succeeded)
          => MergedFrom(Metadata(last.call.left), EmptyDict)

\* C8 witness: a passband times a source spectrum has returned, and their
\* metadata disagree on a key.
C8_Witness ==
    /\ BandTimesSource
    /\ Succeeded
    /\ \E k \in Keys \ {"expr"} :
          /\ Metadata(last.call.left)[k] # Absent
          /\ Metadata(last.call.right)[k] # Absent
          /\ Metadata(last.call.left)[k] # Metadata(last.call.right)[k]

\* C9 (as claimed): the result of an arithmetic operation has no warnings.
C9_NoWarnings ==
    (last.call.op \in Ops /\ Succeeded) => Result.warnings = NoWarnings

\* C9 (amended): the result of an arithmetic operation has no warning of its
\* operands: it has none at all when no computed value was negative, and
\* otherwise at most the NegativeFlux warning that counts its own negative
\* values.
C9_OwnWarningsOnly ==
    (last.call.op \in Ops /\ Succeeded) =>
        /\ Result.warnings.PartialRenorm = NoPartial
        /\ NegIdx(last.raw) = {} => Result.warnings = NoWarnings
        /\ Result.warnings.NegativeFlux # NoNeg
              => Result.warnings.NegativeFlux
                    = <<Cardinality(NegIdx(last.raw)), Len(last.raw)>>

\* C9 witness: an operand with a warning, a result without.
C9_Witness ==
    /\ last.call.op \in Ops
    /\ Succeeded
    /\ Left.warnings # NoWarnings
    /\ Result.warnings = NoWarnings

IdentityCall ==
    /\ ScalarCall
    /\ \/ last.call.op \in {"+", "-"} /\ last.call.scalar = Zero
       \/ last.call.op \in {"*", "/"} /\ last.call.scalar = One

\* C10: s + 0, s - 0, s * 1 and s / 1 are new instances with the
\* wavelengths, the units, the area and the values of s; and no scalar
\* operation changes the wavelengths.
C10_ScalarIdentity ==
    /\ (ScalarCall /\ Succeeded)
          => Result.wave = Left.wave /\ Result.wunit = Left.wunit
    /\ IdentityCall
          => /\ Succeeded
             /\ last.result = Len(heap)
             /\ Result.flux = Left.flux
             /\ Result.funit = Left.funit
             /\ Result.area = Left.area

\* C10 witness: s - 0 has returned, for an s with two different values.
C10_Witness ==
    /\ IdentityCall
    /\ last.call.op = "-"
    /\ Succeeded
    /\ Left.flux[1] # Left.flux[2]

\* C11: resample of a spectrum onto its own wavelengths, ascending or
\* descending, returns its values, each at its place.
C11_SelfResample ==
    (last.call.op = "resample" /\ last.arg = Left.wave) =>
        /\ last.exc = "none"
        /\ last.value = Left.flux

\* C11 witness: a spectrum on a descending grid, with values that differ, was
\* resampled onto its own wavelengths.
C11_Witness ==
    /\ last.call.op = "resample"
    /\ last.arg = Left.wave
    /\ last.exc = "none"
    /\ RLt(Left.wave[2], Left.wave[1])
    /\ Left.flux[1] # Left.flux[2]

\* The wavelength x is outside the grid of spectrum s.
Outside(s, x) == RLt(x, ArrLow(s.wave)) \/ RLt(ArrMax(s.wave), x)

\* The points of s, and the two of them at the end of the grid x is beyond.
Points(s) == {<<s.wave[k], s.flux[k]>> : k \in 1..Len(s.wave)}
EndPoint(s, x) ==
    CHOOSE p \in Points(s) :
       IF RLt(x, ArrLow(s.wave)) THEN p[1] = ArrLow(s.wave)
       ELSE p[1] = ArrMax(s.wave)
NextPoint(s, x) ==
    CHOOSE p \in Points(s) \ {EndPoint(s, x)} :
       \A q \in Points(s) \ {EndPoint(s, x)} :
          IF RLt(x, ArrLow(s.wave)) THEN RLe(p[1], q[1]) ELSE RLe(q[1], p[1])

\* The value at x of the line through the two points at that end of s.
Extrapolated(s, x) ==
    LET p == EndPoint(s, x)
        q == NextPoint(s, x)
    IN  RAdd(p[2], RMul(RDiv(RSub(q[2], p[2]), RSub(q[1], p[1])),
                        RSub(x, p[1])))

\* C12 (as claimed): at a wavelength outside the grid of the spectrum,
\* resample returns the linear extrapolation of the spectrum.
C12_Extrapolates ==
    (last.call.op = "resample" /\ last.exc = "none") =>
        \A k \in 1..Len(last.arg) :
           Outside(Left, last.arg[k])
              => last.value[k] = Extrapolated(Left, last.arg[k])

\* C12 (amended): at a wavelength outside the grid of the spectrum, resample
\* returns the value of the nearest end of the spectrum, and the call of
\* resample on valid wavelengths raises nothing.
C12_EndValueHeld ==
    /\ (last.call.op = "resample" /\ last.exc = "none") =>
          \A k \in 1..Len(last.arg) :
             Outside(Left, last.arg[k])
                => last.value[k] = EndPoint(Left, last.arg[k])[2]
    /\ (last.call.op = "resample" /\ ValidateWavelengths(last.arg) = "ok")
          => last.exc = "none"

\* C12 witness: resample returned the value at a wavelength outside the grid
\* of a spectrum whose extrapolation is another value.
C12_Witness ==
    /\ last.call.op = "resample"
    /\ last.exc = "none"
    /\ \E k \in 1..Len(last.arg) :
          /\ Outside(Left, last.arg[k])
          /\ Extrapolated(Left, last.arg[k]) # EndPoint(Left, last.arg[k])[2]

\* The wavelengths of the bins of s that are not zero, in the unit to.
NonZeroSet(s, to) ==
    {ConvertWave(<<s.wave[k]>>, s.wunit, to)[1] :
        k \in {j \in 1..Len(s.wave) : s.flux[j] # Zero}}

\* Every wavelength of the set A is between two wavelengths of the set B.
Within(A, B) ==
    \A x \in A : (\E y \in B : RLe(y, x)) /\ (\E y \in B : RLe(x, y))

\* Every wavelength of A is below every wavelength of B, or the reverse.
Disjoint(A, B) ==
    \/ \A x \in A, y \in B : RLt(x, y)
    \/ \A x \in A, y \in B : RLt(y, x)

RenormCall == last.call.op = "renorm"
RenormArg == last.arg[1]
IsPassband == RenormArg.band # 0 /\ Right.cls = BAND
\* The overlap of the passband with the source, as check_overlap reports it.
BandOverlap == check_overlap(Right, Left, DefaultThreshold).status

\* C15: renorm fails with a domain error when band is not a passband; an
\* overlap of none fails with a disjoint error whatever force is; an overlap
\* of partial_notmost fails with a partial-overlap error exactly when force
\* is not set; a full or partial_most overlap fails with neither; and these
\* errors take precedence over every failure of the flux computation and
\* leave no result behind.
C15_ErrorOrder ==
    RenormCall =>
        /\ ~IsPassband => last.exc = "SynphotError" /\ last.why = "band"
        /\ IsPassband =>
              /\ BandOverlap = "none" => last.exc = "DisjointError"
              /\ BandOverlap = "partial_notmost" =>
                    (last.exc = "PartialOverlap" <=> ~RenormArg.force)
              /\ BandOverlap \in {"full", "partial_most"} =>
                    last.exc \notin {"DisjointError", "PartialOverlap"}
              /\ last.exc = "DisjointError" => BandOverlap = "none"
        /\ last.exc \in {"DisjointError", "PartialOverlap"} => last.result = 0

\* C15 witness: a forced renormalization to VEGAMAG without a Vega spectrum
\* failed with the disjoint error, not with the missing-spectrum error.
C15_Witness ==
    /\ RenormCall
    /\ IsPassband
    /\ RenormArg.force
    /\ RenormArg.unit = VEGAMAG
    /\ RenormArg.vegaspec = 0
    /\ last.exc = "DisjointError"

\* The overlaps for which renorm proceeds with a warning.
Warned(stat, force) ==
    stat = "partial_most" \/ (stat = "partial_notmost" /\ force)

\* C16: the spectrum a successful renorm returns carries a PartialRenorm
\* warning exactly when the overlap was partial_most, or partial_notmost with
\* force set, and none for a full overlap; renorm changes the warnings of no
\* instance that existed before the call, and the warnings of the source are
\* not copied to the result: the result of renormalizing a source that has a
\* NegativeFlux warning has none, and a PartialRenorm warning of the source
\* does not reach the result of a renormalization that the overlap does not
\* warn about.
C16_PartialRenormWarning ==
    [][last'.call.op = "renorm" =>
        /\ Len(heap') >= Len(heap)
        /\ \A k \in 1..Len(heap) : heap'[k].warnings = heap[k].warnings
        /\ last'.exc = "none" =>
              LET src == heap[last'.call.left]
                  band == heap[last'.call.right]
                  res == heap'[last'.result]
                  stat == check_overlap(band, src, DefaultThreshold).status
                  force == last'.arg[1].force
              IN  /\ last'.result = Len(heap) + 1
                  /\ res.warnings.PartialRenorm # NoPartial
                        <=> Warned(stat, force)
                  /\ stat = "full" => res.warnings.PartialRenorm = NoPartial
                  /\ res.warnings.NegativeFlux = NoNeg]_vars

\* C16 witness: a forced renormalization over a partial_notmost overlap of a
\* source that has a NegativeFlux warning returned a spectrum with the
\* PartialRenorm warning only.
C16_Witness ==
    /\ RenormCall
    /\ Succeeded
    /\ BandOverlap = "partial_notmost"
    /\ RenormArg.force
    /\ Left.warnings.NegativeFlux # NoNeg
    /\ Left.warnings.PartialRenorm = NoPartial
    /\ Result.warnings.PartialRenorm # NoPartial
    /\ Result.warnings.NegativeFlux = NoNeg

\* The integral of (heap[i] * band) for the band of the renorm call.
ThroughBand(i) ==
    integrate(mul(heap, dicts, i, Spec_(last.call.right)).obj[1])

\* The integral of (flat spectrum of the target unit on the grid of the
\* band * band), in the unit of the source.
StandardFlux ==
    LET H == Append(heap, flat_spectrum(last.call.unit, Right, Left.area))
        up == operate_on(H, dicts, Len(H), Spec_(last.call.right), "*")
    IN  integrate(convert_flux(up.obj[1], Left.funit))

LinearRenorm == RenormCall /\ Succeeded /\ ~IsMag(last.call.unit)

\* C17: a successful renorm to a value v >= 0 in a linear flux-density unit
\* returns the source on its own wavelengths, in its own unit, with every
\* value multiplied by v * standard_flux / total_flux, and the integral of
\* (result * band) is v * standard_flux.
C17_LinearScale ==
    LinearRenorm =>
        LET v == RenormArg.v
            const == RMul(v, RDiv(StandardFlux, ThroughBand(last.call.left)))
        IN  /\ RLe(Zero, v)
            /\ Result.cls = SOURCE
            /\ Result.wave = Left.wave
            /\ Result.wunit = Left.wunit
            /\ Result.funit = Left.funit
            /\ Result.area = Left.area
            /\ Result.flux = [k \in 1..Len(Left.flux) |->
                                 RMul(Left.flux[k], const)]
            /\ ThroughBand(last.result) = RMul(v, StandardFlux)

\* C17 witness: a renormalization to 2 PHOTLAM of a source in FLAM whose
\* flux through the band is not the standard flux, over a partial overlap.
C17_Witness ==
    /\ LinearRenorm
    /\ RenormArg.v = Num(2)
    /\ last.call.unit = PHOTLAM
    /\ Left.funit = FLAM
    /\ BandOverlap = "partial_most"
    /\ ThroughBand(last.call.left) # StandardFlux
    /\ ThroughBand(last.result) = RMul(Num(2), StandardFlux)

\* The scenario: a source of flux 1 FLAM on [3000, 6000] (in units of 1000
\* Angstrom: [3, 6]) renormalized to 2 FLAM in a band of throughput 1 on
\* [4000, 5000].
Scenario ==
    /\ RenormCall
    /\ IsPassband
    /\ Left.wave = W(3, 6) /\ Left.flux = W(1, 1) /\ Left.funit = FLAM
    /\ Right.wave = W(4, 5) /\ Right.flux = W(1, 1)
    /\ RenormArg.unit = FLAM /\ RenormArg.v = Num(2)

\* C18 (as claimed): in the scenario the overlap is full, the scale factor
\* is exactly 2 and the flux of the result is 2 FLAM at every wavelength.
C18_FactorTwo ==
    Scenario =>
        /\ Succeeded
        /\ last.status = "full"
        /\ Result.funit = FLAM
        /\ \A k \in 1..Len(Result.flux) : Result.flux[k] = Num(2)

\* What the scenario gives: the band is held at 1 over the whole grid of the
\* source, the flux of the source through it is 3 and the factor 2/3.
C18_Observed ==
    Scenario =>
        /\ Succeeded
        /\ last.status = "full"
        /\ ThroughBand(last.call.left) = Num(3)
        /\ StandardFlux = Num(1)
        /\ \A k \in 1..Len(Result.flux) : Result.flux[k] = <<2, 3>>

RedshiftCall == last.call.op = "apply_redshift"
Numeric == last.call.rkind = "scalar"
OnePlusZ == RAdd(One, last.call.scalar)

AddMagCall == last.call.op = "add_mag"
\* mag is not a number, or is a Quantity in a unit that is no magnitude.
BadMag ==
    \/ last.arg[1].kind = "other"
    \/ last.arg[1].kind = "quantity" /\ ~IsMag(last.arg[1].unit)
\* 10 ** (-0.4 * mag) for the magnitude of 2.5 * n
TenTo(n) == IF n >= 0 THEN <<1, 10 ^ n>> ELSE <<10 ^ (-n), 1>>

\* C21: add_mag(mag) fails with the domain error and leaves no result when
\* mag is not a number or is a Quantity in a unit that is no magnitude;
\* otherwise, on a spectrum in a linear flux unit, it returns what the
\* spectrum times the number 10 ** (-0.4 * mag) is, and add_mag(0) returns a
\* spectrum with the wavelengths and the values of the original.
C21_AddMag ==
    AddMagCall =>
        /\ BadMag => /\ last.exc = "SynphotError"
                     /\ last.why = "mag"
                     /\ last.result = 0
        /\ (~BadMag /\ ~IsMag(Left.funit)) =>
              /\ Succeeded
              /\ LET r == mul(HeapBefore, DictsBefore, last.call.left,
                              Scalar(TenTo(last.arg[1].n)))
                 IN  /\ r.exc = "none"
                     /\ Result = r.obj[1]
                     /\ Metadata(last.result) = r.dicts[r.obj[1].meta]
              /\ last.arg[1].n = 0 =>
                    Result.wave = Left.wave /\ Result.flux = Left.flux

\* C21 witness: a magnitude of 2.5 given as a Quantity was added to a
\* spectrum with two different values, which are ten times smaller now.
C21_Witness ==
    /\ AddMagCall
    /\ Succeeded
    /\ last.arg[1].kind = "quantity"
    /\ last.arg[1].n = 1
    /\ Left.flux = W(1, 2)
    /\ Result.flux = <<(<<1, 10>>), (<<1, 5>>)>>

NewCall == last.call.op = "new"
Given == last.arg[1]
StrictlyMonotonic(w) ==
    \/ \A k \in 1..(Len(w) - 1) : RLt(w[k], w[k + 1])
    \/ \A k \in 1..(Len(w) - 1) : RLt(w[k + 1], w[k])
LegalUnit == ValidFluxUnit(last.call.cls, last.call.unit)

\* C22 (as claimed): for strictly monotonic wavelengths and values of the
\* same length the construction succeeds, and the stored wavelengths and
\* values are the ones given, each at its place.
C22_RoundTrip ==
    (NewCall /\ StrictlyMonotonic(Given.wave)
        /\ Len(Given.wave) = Len(Given.flux)) =>
        /\ Succeeded
        /\ Result.wave = Given.wave
        /\ Result.flux = Given.flux

\* C22 (amended): for strictly monotonic wavelengths above zero, at least
\* one of them, values of the same length and a flux unit that is legal for
\* the class, the construction succeeds, the stored wavelengths are the ones
\* given, each at its place, and each stored value is the one given at its
\* place, or 0 where the one given is negative.
C22_ValidRoundTrip ==
    (NewCall /\ StrictlyMonotonic(Given.wave)
        /\ Len(Given.wave) = Len(Given.flux)
        /\ Len(Given.wave) >= 1
        /\ \A k \in 1..Len(Given.wave) : RLt(Zero, Given.wave[k])
        /\ LegalUnit) =>
        /\ Succeeded
        /\ Result.wave = Given.wave
        /\ Len(Result.flux) = Len(Given.flux)
        /\ \A k \in 1..Len(Given.flux) :
              \/ Result.flux[k] = Given.flux[k]
              \/ RLt(Given.flux[k], Zero) /\ Result.flux[k] = Zero

\* C22 witness: a passband on three descending wavelengths, with one
\* negative value among two others, was constructed.
C22_Witness ==
    /\ NewCall
    /\ Succeeded
    /\ Result.cls = BAND
    /\ Given.wave = <<Num(3), Num(2), Num(1)>>
    /\ Given.flux = <<Num(1), Num(-1), Num(1)>>
    /\ Result.wave = Given.wave
    /\ Result.flux = <<Num(1), Num(0), Num(1)>>

StatisticCall == last.call.op \in Statistics
GivenThreshold == last.arg[1]

C24_DataModel ==
    \A i \in 1..Len(heap) :
        Len(heap[i].wave) >= 2 =>
            /\ StrictlyMonotonic(heap[i].wave)
            /\ \A k \in 1..Len(heap[i].wave) : RLt(Zero, heap[i].wave[k])
            /\ \A j, k \in 1..Len(heap[i].wave) :
                  j # k => heap[i].wave[j] # heap[i].wave[k]
            /\ Len(heap[i].wave) = Len(heap[i].flux)
            /\ heap[i].cls = BAND => heap[i].thru = heap[i].flux

\* C24 witness: a passband of three bins was converted to frequencies and
\* then tapered, which gave it a fourth bin.
C24_Witness ==
    /\ last.call.op = "taper"
    /\ last.exc = "none"
    /\ Left.cls = BAND
    /\ Left.wunit = HZ
    /\ Len(Left.wave) = 4
    /\ Left.thru[4] = Zero

TaperCall == last.call.op = "taper" /\ last.exc = "none"

\* The bin taper puts next to an end of value v at wavelength w, the
\* neighbour of which is at wavelength x.
EndBin(v, w, x, zero) ==
    IF v # Zero THEN <<IF zero THEN Zero ELSE RDiv(RMul(w, w), x)>> ELSE <<>>

\* C28: a taper that returns, on an instance of two bins or more, puts a
\* bin of value 0 at w0*w0/w1 before a first bin that is not 0 and at
\* wn*wn/w(n-1) after a last bin that is not 0, puts nothing next to an
\* end that is 0, and changes nothing else; both ends are 0 afterwards, and
\* a taper that follows a taper of the same instance changes nothing.
C28_Taper ==
    [][ /\ (last'.call.op = "taper" /\ last'.exc = "none"
            /\ Len(heap[last'.call.left].wave) >= 2) =>
              LET i == last'.call.left
                  old == heap[i]
                  new == heap'[i]
                  n == Len(old.wave)
              IN  /\ new.wave
                       = EndBin(old.flux[1], old.wave[1], old.wave[2], FALSE)
                         \o old.wave
                         \o EndBin(old.flux[n], old.wave[n], old.wave[n - 1],
                                   FALSE)
                  /\ new.flux
                       = EndBin(old.flux[1], old.wave[1], old.wave[2], TRUE)
                         \o old.flux
                         \o EndBin(old.flux[n], old.wave[n], old.wave[n - 1],
                                   TRUE)
                  /\ new.flux[1] = Zero
                  /\ new.flux[Len(new.flux)] = Zero
                  /\ new = [old EXCEPT !.wave = new.wave, !.flux = new.flux,
                                       !.thru = new.thru]
                  /\ \A j \in 1..Len(heap) : j # i => heap'[j] = heap[j]
                  /\ Len(heap') = Len(heap)
        /\ (TaperCall /\ last'.call.op = "taper"
            /\ last'.call.left = last.call.left
            /\ Len(Left.wave) >= 2) =>
              last'.exc = "none" /\ heap' = heap
      ]_vars

\* C28 witness: a passband of three bins, the first of which is 0 and the
\* last of which is not, was tapered, which put one bin at 4 * 4 / 2 = 8.
C28_Witness ==
    /\ TaperCall
    /\ Left.cls = BAND
    /\ Left.wave = <<Num(1), Num(2), Num(4), Num(8)>>
    /\ Left.flux = <<Num(0), Num(1), Num(2), Num(0)>>

\* The errors of grid validation that wavelengths w deserve.
Defects(w) ==
    {e \in {"ZeroWavelength", "UnsortedWavelength", "DuplicateWavelength"} :
        \/ e = "ZeroWavelength" /\ \E k \in 1..Len(w) : RLe(w[k], Zero)
        \/ e = "UnsortedWavelength"
             /\ \E j, k \in 1..(Len(w) - 1) :
                   RLt(w[j], w[j + 1]) /\ RLt(w[k + 1], w[k])
        \/ e = "DuplicateWavelength"
             /\ \E j, k \in 1..Len(w) : j # k /\ w[j] = w[k]}

\* C25: a construction with wavelengths that are unsorted, have a duplicate
\* or have an entry that is zero or negative fails with an error of grid
\* validation for one of these defects, whatever the unit and the lengths
\* of the arrays are, and no value was clamped (and no warning given) before.
C25_GridFirst ==
    (NewCall /\ Defects(Given.wave) # {}) =>
        /\ last.exc \in Defects(Given.wave)
        /\ ~last.clamped

\* The value of spectrum s at wavelength x, whichever way its grid runs: the
\* value of the end bin outside the grid, and on the straight line between
\* the two neighbouring bins within it.
ValueAt(s, x) ==
    IF RLe(x, ArrLow(s.wave)) THEN (CHOOSE p \in Points(s) : p[1] = ArrLow(s.wave))[2]
    ELSE IF RLe(ArrMax(s.wave), x)
    THEN (CHOOSE p \in Points(s) : p[1] = ArrMax(s.wave))[2]
    ELSE LET pq == CHOOSE pq \in Points(s) \X Points(s) :
                      /\ RLe(pq[1][1], x)
                      /\ RLt(x, pq[2][1])
                      /\ \A r \in Points(s) :
                            RLe(r[1], pq[1][1]) \/ RLe(pq[2][1], r[1])
             p == pq[1]
             q == pq[2]
         IN  RAdd(p[2], RDiv(RMul(RSub(q[2], p[2]), RSub(x, p[1])),
                             RSub(q[1], p[1])))

\* C26: resample returns, at place i, the value of the spectrum at the i-th
\* of the wavelengths it is given, whether the grid of the spectrum and the
\* wavelengths given ascend or descend; onto the reverse of its own grid it
\* returns its values reversed.
C26_Orientation ==
    (last.call.op = "resample" /\ last.exc = "none") =>
        /\ Len(last.value) = Len(last.arg)
        /\ \A k \in 1..Len(last.arg) :
              last.value[k] = ValueAt(Left, last.arg[k])
        /\ last.arg = Reverse(Left.wave) => last.value = Reverse(Left.flux)

\* C26 witness: a spectrum on a descending grid was resampled onto the
\* reverse of its grid, which ascends, and its values are not the same read
\* backwards.
C26_Witness ==
    /\ last.call.op = "resample"
    /\ last.exc = "none"
    /\ RLt(Left.wave[2], Left.wave[1])
    /\ last.arg = Reverse(Left.wave)
    /\ last.value # Left.flux

\* The integral of the spectrum s between the wavelengths lo and hi, over
\* these two and every bin of s between them.
TailIntegral(s, lo, hi) ==
    LET x == SortSet({lo, hi} \cup {w \in Range(s.wave) : RLt(lo, w) /\ RLt(w, hi)})
    IN  trapezoid_integration(x, [k \in 1..Len(x) |-> ValueAt(s, x[k])])

\* What of the spectrum s, with non-zero bins A, lies outside B.
ExcludedFlux(s, A, B) ==
    RAdd(IF RLt(ArrLow(A), ArrLow(B))
         THEN TailIntegral(s, ArrLow(A), ArrLow(B)) ELSE Zero,
         IF RLt(ArrMax(B), ArrMax(A))
         THEN TailIntegral(s, ArrMax(B), ArrMax(A)) ELSE Zero)

\* The same with each tail taken as one trapezoid between its two ends.
ExcludedChord(s, A, B) ==
    RAdd(IF RLt(ArrLow(A), ArrLow(B))
         THEN integrate_over(s, <<ArrLow(A), ArrLow(B)>>) ELSE Zero,
         IF RLt(ArrMax(B), ArrMax(A))
         THEN integrate_over(s, <<ArrMax(B), ArrMax(A)>>) ELSE Zero)

PartialOverlap ==
    /\ last.call.op = "check_overlap"
    /\ last.status \in {"partial_most", "partial_notmost"}

\* C27: a partial overlap is reported as partial_most exactly when excluded
\* / total < threshold, and as partial_notmost otherwise, where total is
\* the integral of self over its grid and excluded the integral of self
\* over all its bins below the lowest and above the highest non-zero
\* wavelength of other.
C27_ExcludedFraction ==
    PartialOverlap =>
        LET A == SortSet(NonZeroSet(Left, Left.wunit))
            B == SortSet(NonZeroSet(Right, Left.wunit))
        IN  last.status = "partial_most"
              <=> RLt(RDiv(ExcludedFlux(Left, A, B), integrate(Left)),
                      DefaultThreshold)

\* What check_overlap does: each tail is one trapezoid between its two
\* ends, the bins between them left out; the comparison is strict.
C27_Observed ==
    PartialOverlap =>
        LET A == SortSet(NonZeroSet(Left, Left.wunit))
            B == SortSet(NonZeroSet(Right, Left.wunit))
        IN  last.status = "partial_most"
              <=> RLt(RDiv(ExcludedChord(Left, A, B), integrate(Left)),
                      DefaultThreshold)

\* A partial overlap with exactly a hundredth of the flux excluded.
C27_AtThreshold ==
    /\ PartialOverlap
    /\ last.status = "partial_notmost"
    /\ LET A == SortSet(NonZeroSet(Left, Left.wunit))
           B == SortSet(NonZeroSet(Right, Left.wunit))
       IN  RDiv(ExcludedFlux(Left, A, B), integrate(Left)) = DefaultThreshold

\* C29: a construction leaves the mapping it is given as header as the
\* caller made it, and no two instances keep their metadata in the same
\* mapping, whatever constructions, arithmetic, trim_spectrum and
\* apply_redshift made them.
C29_IndependentMetadata ==
    /\ (NewCall /\ Succeeded /\ Given.given) =>
          dicts[Result.meta] = Given.hdr
    /\ \A i, j \in 1..Len(heap) : i # j => heap[i].meta # heap[j].meta

====
